---- MODULE Spec2Model ----
(***************************************************************************)
(* Model of utils/experiment_logger.py (MlflowLogger), utils/configs.py    *)
(* (YamlBaseSettings.settings_customise_sources) and                       *)
(* utils/configs_provider.py (BaseConfigProvider).                         *)
(*                                                                         *)
(* The tracking backend is the mlflow fluent API: every logging call uses  *)
(* the active run and starts one implicitly when none is active;           *)
(* start_run refuses to start a second, non-nested run; end_run closes the *)
(* active run.                                                             *)
(***************************************************************************)
EXTENDS Integers, Sequences, FiniteSets, TLC

VARIABLES config, ctor, run_name, mlflow, scope, op, calls,
          instances, built, handles,
          settings, sources, resolved

vars == <<config, ctor, run_name, mlflow, scope, op, calls,
          instances, built, handles, settings, sources, resolved>>

loggerVars == <<config, ctor, run_name, mlflow, scope, op, calls>>
providerVars == <<instances, built, handles>>
sourceVars == <<settings, sources, resolved>>

\* ------------------------------------------------------------------ bounds
MaxPaths == 2
MaxRuns == 2
MaxCalls == 5

\* Python's None: as a returned value, and as an absent optional object
\* (objects are tuples).
None == "None"
Absent == <<>>

\* ------------------------------------------------------------ file system
\* A file name is the sequence of its dot-separated segments:
\* "a.json" is <<"a", "json">>, "R.JSON" is <<"R", "JSON">>.
LowerSeg(s) ==
    CASE s = "JSON" -> "json"
      [] s = "PARQUET" -> "parquet"
      [] s = "R" -> "r"
      [] s = "X" -> "x"
      [] OTHER -> s

\* str.lower() on a suffix such as <<".", "JSON">>
Lower(suf) == [i \in 1..Len(suf) |-> LowerSeg(suf[i])]

\* Length in characters of a segment (only emptiness matters to pathlib).
SegEmpty(s) == s = ""

\* pathlib.PurePath.suffix: i = name.rfind("."); the suffix is name[i:]
\* when 0 < i < len(name) - 1 and "" otherwise.
HasSuffix(name) ==
    /\ Len(name) > 1
    /\ ~ SegEmpty(name[Len(name)])
    /\ \E j \in 1..(Len(name) - 1) : ~ SegEmpty(name[j])

suffix(name) == IF HasSuffix(name) THEN <<".", name[Len(name)]>> ELSE <<>>

\* the whole name taken for the stem
stem_is_name(name) == name

\* pathlib.PurePath.stem: name[:i] under the same condition, else name.
stem(name) == IF HasSuffix(name) THEN SubSeq(name, 1, Len(name) - 1) ELSE name

P(parent, name) == [parent |-> parent, name |-> name]

\* Values of a DataFrame row / dictionary, by Python type.
Num(v) == [kind |-> "float", v |-> v]
Str(v) == [kind |-> "str", v |-> v]
Lst(v) == [kind |-> "list", v |-> v]
Ts(v) == [kind |-> "Timestamp", v |-> v]

RowOk == << <<"acc", Num(1)>>, <<"model", Str("m")>>, <<"tags", Lst("t")>> >>
RowTs == << <<"acc", Num(1)>>, <<"date", Ts("d")>>, <<"model", Str("m")>> >>
RowB == << <<"acc", Num(2)>> >>

Table(fmt, rows) == [exists |-> TRUE, fmt |-> fmt, rows |-> rows]
Missing == [exists |-> FALSE, fmt |-> "none", rows |-> <<>>]
Other(fmt) == [exists |-> TRUE, fmt |-> fmt, rows |-> <<>>]

\* The files on disk.  fmt is what the bytes really are, whatever the name.
FS(p) ==
    CASE p = P("data", <<"a", "json">>) -> Table("json", <<RowOk>>)
      [] p = P("data", <<"ts", "json">>) -> Table("json", <<RowTs>>)
      [] p = P("data", <<"R", "JSON">>) -> Table("json", <<RowOk, RowB>>)
      [] p = P("data", <<"bad", "json">>) -> Other("garbage")
      [] p = P("data", <<"gone", "json">>) -> Missing
      [] p = P("tpl", <<"t", "jinja2">>) -> Other("text")
      [] p = P("data", <<"b", "csv">>) -> Table("csv", <<RowOk, RowB>>)
      [] p = P("in", <<"x", "parquet">>) -> Table("parquet", <<RowB>>)
      [] p = P("in", <<"X", "v1", "PARQUET">>) -> Table("parquet", <<RowB>>)
      [] p = P("in", <<"x", "txt">>) -> Other("text")
      [] p = P("in", <<"missing", "csv">>) -> Missing
      [] p = P("in", <<"bad", "csv">>) -> Other("garbage")
      [] p = P("in", <<"", "json">>) -> Table("json", <<RowB>>)
      [] OTHER -> Missing

DataPaths ==
    { P("data", <<"a", "json">>), P("data", <<"ts", "json">>),
      P("data", <<"R", "JSON">>), P("data", <<"bad", "json">>),
      P("data", <<"gone", "json">>), P("tpl", <<"t", "jinja2">>),
      P("data", <<"b", "csv">>) }

InputPaths ==
    { P("data", <<"a", "json">>), P("data", <<"bad", "json">>),
      P("data", <<"b", "csv">>), P("in", <<"x", "parquet">>),
      P("in", <<"X", "v1", "PARQUET">>), P("in", <<"x", "txt">>),
      P("in", <<"missing", "csv">>), P("in", <<"bad", "csv">>),
      P("in", <<"", "json">>), P("tpl", <<"t", "jinja2">>) }

Dicts == { <<>>, RowOk, RowTs, RowB }

RECURSIVE SeqsUpTo(_, _)
SeqsUpTo(S, n) ==
    IF n = 0 THEN { <<>> }
    ELSE LET shorter == SeqsUpTo(S, n - 1)
         IN shorter \cup { Append(s, x) : s \in { t \in shorter : Len(t) = n - 1 }, x \in S }

\* --------------------------------------------------------------- backend
\* The fluent API's _get_or_start_run: a logging call made with no active
\* run starts one.
AutoRun == <<"auto_run">>

Backend(m, n) ==
    IF n > 0 /\ m.active = Absent
    THEN [m EXCEPT !.active = AutoRun, !.started = @ + 1]
    ELSE m

BackendOps == {"log_metric", "log_param", "log_table", "log_artifact", "log_input", "set_tag"}

NBackend(cs) == Cardinality({ i \in 1..Len(cs) : cs[i].call \in BackendOps })

\* ------------------------------------------------------------ MlflowLogger
NoExc == "none"

Url(host) == <<host, "">>

\* pydantic's AnyHttpUrl.unicode_string(): the URL as text, an empty path
\* rendered as "/".  Calling it on None raises AttributeError.
unicode_string(u) ==
    IF u = Absent THEN [exc |-> "AttributeError", v |-> <<>>]
    ELSE [exc |-> NoExc, v |-> <<"http://", u[1], IF u[2] = "" THEN "/" ELSE u[2]>>]

Urls == { Absent, Url("local") }
RemoteUrls == { Absent, Url("remote") }

Configs ==
    [ tracking_uri : Urls, remote_tracking_uri : RemoteUrls,
      remote_flag : BOOLEAN, trace : BOOLEAN,
      run_name : { Absent, <<"exp_run">> },
      artifact_path : { "artifacts" }, experiment_name : { "exp" } ]

NoConfig == [ tracking_uri |-> Absent, remote_tracking_uri |-> Absent,
              remote_flag |-> FALSE, trace |-> FALSE, run_name |-> Absent,
              artifact_path |-> "", experiment_name |-> "" ]

NoBackend == [ tracking_uri |-> <<>>, async |-> FALSE, autolog |-> FALSE,
               active |-> Absent, started |-> 0, ended |-> 0 ]

\* _setup with the two URLs swapped
setup_swapped(cfg, m) ==
    LET sel == IF cfg.remote_flag THEN cfg.tracking_uri ELSE cfg.remote_tracking_uri
        uri == unicode_string(sel)
    IN IF uri.exc # NoExc
       THEN [exc |-> uri.exc, mlflow |-> m]
       ELSE [exc |-> NoExc,
             mlflow |-> [m EXCEPT !.tracking_uri = uri.v, !.async = TRUE,
                                  !.autolog = (@ \/ cfg.trace)]]

\* MlflowLogger._setup: the outcome of construction on backend m.
_setup(cfg, m) ==
    LET sel == IF cfg.remote_flag THEN cfg.remote_tracking_uri ELSE cfg.tracking_uri
        uri == unicode_string(sel)
    IN IF uri.exc # NoExc
       THEN [exc |-> uri.exc, mlflow |-> m]
       ELSE [exc |-> NoExc,
             mlflow |-> [m EXCEPT !.tracking_uri = uri.v, !.async = TRUE,
                                  !.autolog = (@ \/ cfg.trace)]]

NumericKinds == {"int", "float", "bool"}

\* json.dumps(value): TypeError on an object the encoder does not know.
json_dumps(value) ==
    IF value.kind \in {"list", "dict", "NoneType"}
    THEN [exc |-> NoExc, v |-> <<"json", value.v>>]
    ELSE [exc |-> "TypeError", v |-> <<>>]

\* log_dict recording every serialisable value as a parameter
RECURSIVE log_dict_all_params(_, _, _)
log_dict_all_params(data, i, cs) ==
    IF i > Len(data) THEN [calls |-> cs, exc |-> NoExc]
    ELSE LET key == data[i][1]
             value == data[i][2]
         IN IF value.kind \in NumericKinds \cup {"str"}
            THEN log_dict_all_params(data, i + 1,
                     Append(cs, [call |-> "log_param", key |-> key, value |-> <<"str", value.v>>]))
            ELSE LET d == json_dumps(value)
                 IN IF d.exc # NoExc
                    THEN [calls |-> cs, exc |-> d.exc]
                    ELSE log_dict_all_params(data, i + 1,
                             Append(cs, [call |-> "log_param", key |-> key, value |-> d.v]))

\* MlflowLogger.log_dict: the backend calls made, in order, and the
\* exception that ended the loop (if any).
RECURSIVE log_dict_from(_, _, _)
log_dict_from(data, i, cs) ==
    IF i > Len(data) THEN [calls |-> cs, exc |-> NoExc]
    ELSE LET key == data[i][1]
             value == data[i][2]
         IN IF value.kind \in NumericKinds
            THEN log_dict_from(data, i + 1,
                     Append(cs, [call |-> "log_metric", key |-> key, value |-> value.v]))
            ELSE IF value.kind = "str"
            THEN log_dict_from(data, i + 1,
                     Append(cs, [call |-> "log_param", key |-> key, value |-> <<"str", value.v>>]))
            ELSE LET d == json_dumps(value)
                 IN IF d.exc # NoExc
                    THEN [calls |-> cs, exc |-> d.exc]
                    ELSE log_dict_from(data, i + 1,
                             Append(cs, [call |-> "log_param", key |-> key, value |-> d.v]))

log_dict(data) == log_dict_from(data, 1, <<>>)

\* pd.read_json / read_csv / read_parquet: the table, or a parse error.
read(fmt, p) ==
    IF FS(p).fmt = fmt THEN [exc |-> NoExc, rows |-> FS(p).rows]
    ELSE [exc |-> "ParseError", rows |-> <<>>]

\* os.path.join(self._artifact_path, path.parent.name)
ArtifactDir(cfg, p) == <<cfg.artifact_path, "/", p.parent>>

\* MlflowLogger._log_jinja_templates
_log_jinja_templates(cfg, p, i) ==
    IF FS(p).exists
    THEN << [call |-> "info", i |-> i, msg |-> "Logging template"],
            [call |-> "log_artifact", i |-> i, local |-> p.name \o <<"txt">>,
             artifact_path |-> ArtifactDir(cfg, p)] >>
    ELSE <<>>

GenericArtifact(cfg, p, i) ==
    << [call |-> "log_artifact", i |-> i, local |-> p.name,
        artifact_path |-> ArtifactDir(cfg, p)],
       [call |-> "info", i |-> i, msg |-> "Logged artifact"] >>

\* the missing path ending the call
MissingReturns(p, i) ==
    [calls |-> << [call |-> "warning", i |-> i, msg |-> "does not exist"] >>,
     ctl |-> "return"]

\* log_experiment_data, the path does not exist: warn and continue.
MissingBranch(p, i) ==
    [calls |-> << [call |-> "warning", i |-> i, msg |-> "does not exist"] >>,
     ctl |-> "continue"]

\* the except clause skipping the rest of the iteration
JsonBranchSkips(cfg, p, i) ==
    LET df == read("json", p)
        table == << [call |-> "log_table", i |-> i, artifact_file |-> p.name] >>
        err == << [call |-> "error", i |-> i, msg |-> "Error reading JSON file"] >>
    IN IF df.exc # NoExc
       THEN [calls |-> err, ctl |-> "continue"]
       ELSE IF Len(df.rows) = 1
       THEN LET r == log_dict(df.rows[1])
            IN IF r.exc = NoExc
               THEN [calls |-> table \o r.calls, ctl |-> "return"]
               ELSE [calls |-> table \o r.calls \o err, ctl |-> "continue"]
       ELSE [calls |-> table \o GenericArtifact(cfg, p, i), ctl |-> "continue"]

\* log_experiment_data, the suffix is .json: the try block around read_json,
\* log_table and log_dict, its except clause, and what follows it.
JsonBranch(cfg, p, i) ==
    LET df == read("json", p)
        table == << [call |-> "log_table", i |-> i, artifact_file |-> p.name] >>
        err == << [call |-> "error", i |-> i, msg |-> "Error reading JSON file"] >>
    IN IF df.exc # NoExc
       THEN [calls |-> err \o GenericArtifact(cfg, p, i), ctl |-> "continue"]
       ELSE IF Len(df.rows) = 1
       THEN LET r == log_dict(df.rows[1])
            IN IF r.exc = NoExc
               THEN [calls |-> table \o r.calls, ctl |-> "return"]
               ELSE [calls |-> table \o r.calls \o err \o GenericArtifact(cfg, p, i),
                     ctl |-> "continue"]
       ELSE [calls |-> table \o GenericArtifact(cfg, p, i), ctl |-> "continue"]

\* log_experiment_data, the suffix is .jinja2:
\* return self._log_jinja_templates(data_path)
TemplateBranch(cfg, p, i) ==
    [calls |-> _log_jinja_templates(cfg, p, i), ctl |-> "return"]

\* One iteration of the loop of MlflowLogger.log_experiment_data on
\* data_paths[i]: the calls it makes and how it leaves the iteration.
LoopBody(cfg, p, i) ==
    IF ~ FS(p).exists THEN MissingBranch(p, i)
    ELSE IF Lower(suffix(p.name)) = <<".", "json">> THEN JsonBranch(cfg, p, i)
    ELSE IF Lower(suffix(p.name)) = <<".", "jinja2">> THEN TemplateBranch(cfg, p, i)
    ELSE [calls |-> GenericArtifact(cfg, p, i), ctl |-> "continue"]

\* MlflowLogger.log_input: the calls made and the exception raised.
log_input(p) ==
    IF ~ FS(p).exists THEN [calls |-> <<>>, exc |-> "FileNotFoundError"]
    ELSE LET format == Lower(suffix(p.name))
             info == << [call |-> "info", i |-> 0, msg |-> "Loading input data"] >>
             fmt == IF format = <<".", "json">> THEN "json"
                    ELSE IF format = <<".", "csv">> THEN "csv"
                    ELSE IF format = <<".", "parquet">> THEN "parquet"
                    ELSE "unsupported"
         IN IF fmt = "unsupported" THEN [calls |-> info, exc |-> "ValueError"]
            ELSE LET input_data == read(fmt, p)
                 IN IF input_data.exc # NoExc
                    THEN [calls |-> info, exc |-> input_data.exc]
                    ELSE [calls |-> Append(info,
                                     [call |-> "log_input", i |-> 0, name |-> stem(p.name),
                                      source |-> p, rows |-> Len(input_data.rows)]),
                          exc |-> NoExc]

\* f"run_{timestamp}_{random_id}"
Timestamps == { "20260101_000000" }
RandomIds == { "a1b2c3" }
GeneratedName(ts, id) == <<"run_", ts, "_", id>>

\* MlflowLogger._log_metadata: the project version and the git tags are
\* best effort.
_log_metadata(version, git) ==
    << [call |-> "set_tag", i |-> 0, key |-> "project_name"] >>
    \o (IF version THEN << [call |-> "set_tag", i |-> 0, key |-> "project_version"] >> ELSE <<>>)
    \o (IF git THEN << [call |-> "set_tag", i |-> 0, key |-> "git_commit"],
                       [call |-> "set_tag", i |-> 0, key |-> "git_branch"] >> ELSE <<>>)
    \o << [call |-> "set_tag", i |-> 0, key |-> "run_host"],
          [call |-> "set_tag", i |-> 0, key |-> "run_datetime"] >>

\* MlflowLogger.__enter__ on backend m with self._run_name = rn.
__enter__(cfg, rn, m, gen, version, git) ==
    LET name == IF rn = Absent THEN gen ELSE rn
    IN IF m.active # Absent
       THEN [exc |-> "MlflowException", run_name |-> name, mlflow |-> m, calls |-> <<>>]
       ELSE [exc |-> NoExc, run_name |-> name,
             mlflow |-> [m EXCEPT !.active = name, !.started = @ + 1],
             calls |-> _log_metadata(version, git)]

\* __exit__ ending the run only when the body did not raise
exit_only_on_success(m, e) ==
    IF m.active = Absent
    THEN [exc |-> "AttributeError", ret |-> None, mlflow |-> m]
    ELSE [exc |-> NoExc, ret |-> None,
          mlflow |-> IF e = NoExc THEN [m EXCEPT !.active = Absent, !.ended = @ + 1] ELSE m]

\* MlflowLogger.__exit__(exc_type, exc_value, traceback): reads the active
\* run's id, ends the run, returns None.
__exit__(m, e) ==
    IF m.active = Absent
    THEN [exc |-> "AttributeError", ret |-> None, mlflow |-> m]
    ELSE [exc |-> NoExc, ret |-> None,
          mlflow |-> [m EXCEPT !.active = Absent, !.ended = @ + 1]]

\* bool(x) of the value __exit__ returns
Truthy(x) == x \notin { None, "False", "" }

\* The with statement: what leaves the block after __exit__ ran with the
\* body's exception e.
WithPropagates(x, e) ==
    IF x.exc # NoExc THEN x.exc
    ELSE IF e # NoExc /\ ~ Truthy(x.ret) THEN e
    ELSE NoExc

\* ---------------------------------------------------------------- state
Idle == [name |-> "none", state |-> "idle", paths |-> <<>>, idx |-> 0, exc |-> NoExc,
         data |-> <<>>, in_run |-> FALSE]

Done(name, exc) ==
    [name |-> name, state |-> IF exc = NoExc THEN "returned" ELSE "raised",
     paths |-> <<>>, idx |-> 0, exc |-> exc, data |-> <<>>,
     in_run |-> mlflow.active # Absent]

LoggerInit ==
    /\ config = NoConfig
    /\ ctor = "unconstructed"
    /\ run_name = Absent
    /\ mlflow = NoBackend
    /\ scope = [state |-> "outside", entered |-> 0, body_exc |-> NoExc, propagated |-> NoExc]
    /\ op = Idle
    /\ calls = <<>>

\* MlflowLogger(config)
Construct(cfg) ==
    /\ ctor = "unconstructed"
    /\ LET r == _setup(cfg, mlflow)
       IN /\ config' = cfg
          /\ run_name' = cfg.run_name
          /\ ctor' = IF r.exc = NoExc THEN "ok" ELSE r.exc
          /\ mlflow' = r.mlflow
          /\ op' = Done("__init__", r.exc)
    /\ calls' = <<>>
    /\ UNCHANGED <<scope, instances, built, handles, settings, sources, resolved>>

\* The caller is between two calls on the logger.
Ready == ctor = "ok" /\ op.state = "idle"

\* The caller takes the result of the call that ended (its return, or its
\* exception, which it handles, as it does the one leaving a with statement)
\* and goes on.
Resume ==
    /\ ctor = "ok"
    /\ op.state \in {"returned", "raised"}
    /\ op' = Idle
    /\ calls' = <<>>
    /\ scope' = [scope EXCEPT !.body_exc = NoExc, !.propagated = NoExc]
    /\ UNCHANGED <<config, ctor, run_name, mlflow, instances, built, handles,
                   settings, sources, resolved>>

\* logger.log_dict(data)
LogDict(data) ==
    /\ Ready
    /\ LET r == log_dict(data)
       IN /\ calls' = r.calls
          /\ mlflow' = Backend(mlflow, NBackend(r.calls))
          /\ op' = [Done("log_dict", r.exc) EXCEPT !.data = data]
    /\ UNCHANGED <<config, ctor, run_name, scope, instances, built, handles,
                   settings, sources, resolved>>

\* logger.log_experiment_data(data_paths): the call and its empty loop
LogExperimentData(data_paths) ==
    /\ Ready
    /\ calls' = <<>>
    /\ op' = [name |-> "log_experiment_data",
              state |-> IF data_paths = <<>> THEN "returned" ELSE "running",
              paths |-> data_paths, idx |-> 1, exc |-> NoExc, data |-> <<>>,
              in_run |-> mlflow.active # Absent]
    /\ UNCHANGED <<config, ctor, run_name, mlflow, scope, instances, built, handles,
                   settings, sources, resolved>>

\* one iteration of the loop of log_experiment_data
LoopStep ==
    /\ op.name = "log_experiment_data"
    /\ op.state = "running"
    /\ LET r == LoopBody(config, op.paths[op.idx], op.idx)
       IN /\ calls' = calls \o r.calls
          /\ mlflow' = Backend(mlflow, NBackend(r.calls))
          /\ op' = IF r.ctl = "return"
                   THEN [op EXCEPT !.state = "returned"]
                   ELSE [op EXCEPT !.idx = @ + 1,
                                   !.state = IF op.idx = Len(op.paths)
                                             THEN "returned" ELSE "running"]
    /\ UNCHANGED <<config, ctor, run_name, scope, instances, built, handles,
                   settings, sources, resolved>>

\* logger.log_input(input_path)
LogInput(input_path) ==
    /\ Ready
    /\ LET r == log_input(input_path)
       IN /\ calls' = r.calls
          /\ mlflow' = Backend(mlflow, NBackend(r.calls))
          /\ op' = [Done("log_input", r.exc) EXCEPT !.paths = <<input_path>>]
    /\ UNCHANGED <<config, ctor, run_name, scope, instances, built, handles,
                   settings, sources, resolved>>

\* with logger: ...   (entry)
Enter(gen, version, git) ==
    /\ Ready
    /\ scope.state # "body"
    /\ scope.entered < MaxRuns
    /\ LET r == __enter__(config, run_name, mlflow, gen, version, git)
       IN /\ run_name' = r.run_name
          /\ mlflow' = r.mlflow
          /\ calls' = r.calls
          /\ op' = Done("__enter__", r.exc)
          /\ scope' = IF r.exc = NoExc
                      THEN [state |-> "body", entered |-> scope.entered + 1,
                            body_exc |-> NoExc, propagated |-> NoExc]
                      ELSE scope
    /\ UNCHANGED <<config, ctor, instances, built, handles, settings, sources, resolved>>

\* The exceptions the body of the with statement can end with: the one the
\* logger call just raised, or none, or one of its own.
BodyExcs == IF op.state = "raised" THEN { op.exc } ELSE { NoExc, "BodyError" }

\* with logger: ...   (the block is left, normally or with exception e)
Exit(e) ==
    /\ ctor = "ok"
    /\ op.state # "running"
    /\ scope.state = "body"
    /\ LET x == __exit__(mlflow, e)
       IN /\ mlflow' = x.mlflow
          /\ scope' = [scope EXCEPT !.state = "closed", !.body_exc = e,
                                    !.propagated = WithPropagates(x, e)]
          /\ op' = Done("__exit__", x.exc)
    /\ calls' = <<>>
    /\ UNCHANGED <<config, ctor, run_name, instances, built, handles,
                   settings, sources, resolved>>

\* An object is <<class, serial number>>; built counts the objects of each
\* class constructed so far in the process.
NoneBuilt == [GlobalConfig |-> 0, MlflowLoggerConfig |-> 0, BaseConfigProvider |-> 0]

ProviderInit ==
    /\ instances = <<>>
    /\ built = NoneBuilt
    /\ handles = <<>>

SourcesFixed ==
    /\ settings = <<>>
    /\ sources = <<>>
    /\ resolved = <<>>

Init == LoggerInit /\ ProviderInit /\ SourcesFixed

Next ==
    \/ \E cfg \in Configs : Construct(cfg)
    \/ \E data \in Dicts : LogDict(data)
    \/ \E data_paths \in SeqsUpTo(DataPaths, MaxPaths) : LogExperimentData(data_paths)
    \/ LoopStep
    \/ \E input_path \in InputPaths : LogInput(input_path)
    \/ \E gen \in { GeneratedName(t, r) : t \in Timestamps, r \in RandomIds },
          version \in BOOLEAN, git \in BOOLEAN : Enter(gen, version, git)
    \/ \E e \in BodyExcs : Exit(e)
    \/ Resume

Spec == Init /\ [][Next]_vars

\* ------------------------------------------------------ BaseConfigProvider
\* BaseConfigProvider.__init__: GlobalConfig() then MlflowLoggerConfig(),
\* either of which fails when its sources do not validate.
BaseConfigProvider__init__(b, globalOk, mlflowOk) ==
    IF ~ globalOk
    THEN [exc |-> "ValidationError", built |-> b, self |-> <<>>]
    ELSE IF ~ mlflowOk
    THEN [exc |-> "ValidationError",
          built |-> [b EXCEPT !.GlobalConfig = @ + 1], self |-> <<>>]
    ELSE [exc |-> NoExc,
          built |-> [b EXCEPT !.GlobalConfig = @ + 1, !.MlflowLoggerConfig = @ + 1,
                              !.BaseConfigProvider = @ + 1],
          self |-> << <<"BaseConfigProvider", b.BaseConfigProvider + 1>>,
                      <<"GlobalConfig", b.GlobalConfig + 1>>,
                      <<"MlflowLoggerConfig", b.MlflowLoggerConfig + 1>> >>]

\* SingletonMeta.__call__: the cached instance of the class, constructed on
\* the first call; a failed construction caches nothing.
SingletonMeta__call__(inst, b, globalOk, mlflowOk) ==
    IF inst # <<>>
    THEN [exc |-> NoExc, built |-> b, instances |-> inst, ret |-> inst[1]]
    ELSE LET r == BaseConfigProvider__init__(b, globalOk, mlflowOk)
         IN IF r.exc # NoExc
            THEN [exc |-> r.exc, built |-> r.built, instances |-> inst, ret |-> <<>>]
            ELSE [exc |-> NoExc, built |-> r.built, instances |-> <<r.self>>, ret |-> r.self]

\* the property building a new GlobalConfig on each access
global_config_fresh(self) == <<"GlobalConfig", self[2][2] + 1>>

\* BaseConfigProvider.global_config
global_config(self) == self[2]

\* BaseConfigProvider.mlflow_configs
mlflow_configs(self) == self[3]

Handle(call, exc, self, ret) == [call |-> call, exc |-> exc, self |-> self, ret |-> ret]

\* BaseConfigProvider()
GetProvider(globalOk, mlflowOk) ==
    /\ Len(handles) < MaxCalls
    /\ LET r == SingletonMeta__call__(instances, built, globalOk, mlflowOk)
       IN /\ instances' = r.instances
          /\ built' = r.built
          /\ handles' = Append(handles, Handle("BaseConfigProvider", r.exc, r.ret, r.ret))
    /\ UNCHANGED <<loggerVars, sourceVars>>

Providers == { handles[i].self : i \in { j \in 1..Len(handles) :
                   handles[j].call = "BaseConfigProvider" /\ handles[j].exc = NoExc } }

\* provider.global_config
GetGlobalConfig(self) ==
    /\ Len(handles) < MaxCalls
    /\ handles' = Append(handles, Handle("global_config", NoExc, self, global_config(self)))
    /\ UNCHANGED <<instances, built, loggerVars, sourceVars>>

\* provider.mlflow_configs
GetMlflowConfigs(self) ==
    /\ Len(handles) < MaxCalls
    /\ handles' = Append(handles, Handle("mlflow_configs", NoExc, self, mlflow_configs(self)))
    /\ UNCHANGED <<instances, built, loggerVars, sourceVars>>

NextProvider ==
    \/ \E globalOk \in BOOLEAN, mlflowOk \in BOOLEAN : GetProvider(globalOk, mlflowOk)
    \/ \E self \in Providers : GetGlobalConfig(self)
    \/ \E self \in Providers : GetMlflowConfigs(self)

SpecProvider == Init /\ [][NextProvider]_vars

\* ------------------------------------------------------- YamlBaseSettings
SourceOrder == <<"init", "env", "dotenv", "secrets", "yaml">>
SourceNames == { SourceOrder[i] : i \in 1..Len(SourceOrder) }
Keys == { "log_level", "extra" }

\* model_config.get("yaml_file", None)
YamlFiles == { None, "", "configs/global.yaml" }

\* bool(yaml_path)
TruthyStr(x) == x \notin { None, "" }

\* the YAML source put first
yaml_first(yaml_path) ==
    LET srcs == <<"init", "env", "dotenv", "secrets">>
    IN IF TruthyStr(yaml_path) THEN <<"yaml">> \o srcs ELSE srcs

\* YamlBaseSettings.settings_customise_sources: the sources, highest
\* priority first.
settings_customise_sources(yaml_path) ==
    LET srcs == <<"init", "env", "dotenv", "secrets">>
    IN IF TruthyStr(yaml_path) THEN srcs \o <<"yaml">> ELSE srcs

\* BaseSettings builds the field values from the customised sources: for
\* each key the first source of the tuple that defines it supplies the
\* value; a key no source defines stays unset.
RECURSIVE FirstDefining(_, _, _, _)
FirstDefining(srcs, defines, k, i) ==
    IF i > Len(srcs) THEN <<"unset", k>>
    ELSE IF k \in defines[srcs[i]] THEN <<srcs[i], k>>
    ELSE FirstDefining(srcs, defines, k, i + 1)

BuildValues(srcs, defines) == [k \in Keys |-> FirstDefining(srcs, defines, k, 1)]

SettingsInputs == [yaml_file : YamlFiles, defines : [SourceNames -> SUBSET Keys]]

InitSources ==
    /\ LoggerInit
    /\ ProviderInit
    /\ settings \in { <<x>> : x \in SettingsInputs }
    /\ sources = <<>>
    /\ resolved = <<>>

\* the settings class asks for its sources
CustomiseSources ==
    /\ settings # <<>>
    /\ sources = <<>>
    /\ sources' = settings_customise_sources(settings[1].yaml_file)
    /\ UNCHANGED <<settings, resolved, loggerVars, providerVars>>

\* the settings object is built from them
BuildSettings ==
    /\ sources # <<>>
    /\ resolved = <<>>
    /\ resolved' = << BuildValues(sources, settings[1].defines) >>
    /\ UNCHANGED <<settings, sources, loggerVars, providerVars>>

NextSources == CustomiseSources \/ BuildSettings

SpecSources == InitSources /\ [][NextSources]_vars

\* ================================================================ claims
Indexed == {"warning", "error", "info", "log_table", "log_artifact", "log_input", "set_tag"}

\* the positions of cs holding a call of kind c made for path number i
At(cs, c, i) == { k \in 1..Len(cs) : cs[k].call = c /\ cs[k].i = i }

\* the positions of cs holding any call made for path number i
Touched(cs, i) == { k \in 1..Len(cs) : cs[k].call \in Indexed /\ cs[k].i = i }

\* the positions of cs holding a call of kind c
Of(cs, c) == { k \in 1..Len(cs) : cs[k].call = c }

InLoop == op.name = "log_experiment_data" /\ op.state = "running"
Cur == op.paths[op.idx]
LastSeg(p) == p.name[Len(p.name)]
Added == SubSeq(calls', Len(calls) + 1, Len(calls'))
GoesOn ==
    /\ op'.exc = NoExc
    /\ op'.state # "raised"
    /\ op'.paths = op.paths
    /\ op.idx < Len(op.paths) => (op'.state = "running" /\ op'.idx = op.idx + 1)
    /\ op.idx = Len(op.paths) => op'.state = "returned"

\* C1: every run scope that was entered and left ended the backend run
\* exactly once (the number of end_run calls equals the number of scopes
\* entered once the scope is closed, and is one less inside the body); right
\* after __exit__ no run is active, __exit__ itself raised nothing, and the
\* exception that leaves the with statement is the one the body raised.
C1_RunEndedExactlyOnce ==
    /\ scope.state = "outside" => mlflow.ended = 0
    /\ scope.state = "body" => (mlflow.ended = scope.entered - 1 /\ mlflow.active # Absent)
    /\ scope.state = "closed" =>
          /\ mlflow.ended = scope.entered
          /\ scope.propagated = scope.body_exc
          /\ op.name = "__exit__" => (mlflow.active = Absent /\ op.exc = NoExc)

C1_Witness ==
    /\ scope.state = "closed"
    /\ op.name = "__exit__"
    /\ scope.entered = 2
    /\ mlflow.ended = 2
    /\ scope.body_exc = "FileNotFoundError"
    /\ scope.propagated = "FileNotFoundError"

\* C2: an iteration of log_experiment_data on an existing .jinja2 path logs
\* the file once, as the text artifact <name>.txt and not under its own
\* name, and the loop goes on with the next path.
C2_TemplateEndsOnlyItsPath ==
    [][ (InLoop /\ FS(Cur).exists /\ LastSeg(Cur) = "jinja2" /\ calls' # calls) =>
          /\ Cardinality(At(Added, "log_artifact", op.idx)) = 1
          /\ \A k \in At(Added, "log_artifact", op.idx) : Added[k].local = Cur.name \o <<"txt">>
          /\ GoesOn ]_vars

\* C3: an iteration of log_experiment_data on an existing .json path that
\* parses to a one-row table logs the table, logs every field of the row
\* through log_dict, logs no error and no artifact, and ends the call with
\* no later path processed.
C3_SingleRowStopsTheCall ==
    [][ (InLoop /\ FS(Cur).exists /\ LastSeg(Cur) \in {"json", "JSON"}
         /\ FS(Cur).fmt = "json" /\ Len(FS(Cur).rows) = 1 /\ calls' # calls) =>
          /\ Cardinality(At(Added, "log_table", op.idx)) = 1
          /\ Cardinality(Of(Added, "log_metric") \cup Of(Added, "log_param"))
                = Len(FS(Cur).rows[1])
          /\ Of(Added, "error") = {}
          /\ Of(Added, "log_artifact") = {}
          /\ op'.state = "returned"
          /\ op'.idx = op.idx ]_vars

Selected == IF config.remote_flag THEN config.remote_tracking_uri ELSE config.tracking_uri

C6_LogInput ==
    op.name = "log_input" =>
        LET p == op.paths[1]
            n == Cardinality(Of(calls, "log_input"))
        IN /\ ~ FS(p).exists => (op.exc = "FileNotFoundError" /\ n = 0)
           /\ (FS(p).exists /\ LastSeg(p) \notin {"json", "JSON", "csv", "parquet", "PARQUET"})
                 => (op.exc = "ValueError" /\ n = 0)
           /\ (FS(p).exists /\ p.name[1] # ""
               /\ <<LastSeg(p), FS(p).fmt>> \in { <<"json", "json">>, <<"JSON", "json">>,
                      <<"csv", "csv">>, <<"parquet", "parquet">>, <<"PARQUET", "parquet">> })
                 => /\ op.exc = NoExc
                    /\ n = 1
                    /\ \A k \in Of(calls, "log_input") :
                          calls[k].name = SubSeq(p.name, 1, Len(p.name) - 1)

C6_Witness ==
    /\ op.name = "log_input"
    /\ op.exc = NoExc
    /\ op.paths[1].name = <<"X", "v1", "PARQUET">>
    /\ \E k \in Of(calls, "log_input") : calls[k].name = <<"X", "v1">>

\* C7: an iteration of log_experiment_data on a path that does not exist
\* adds one warning and nothing else (no table, no artifact), raises
\* nothing, and the loop goes on with the next path.
C7_MissingPathSkipped ==
    [][ (InLoop /\ ~ FS(Cur).exists /\ calls' # calls) =>
          /\ Len(Added) = 1
          /\ Added[1].call = "warning"
          /\ Added[1].i = op.idx
          /\ GoesOn ]_vars

C7_Witness ==
    /\ op.name = "log_experiment_data"
    /\ Len(op.paths) = 2
    /\ ~ FS(op.paths[1]).exists
    /\ At(calls, "warning", 1) # {}
    /\ At(calls, "log_artifact", 2) # {}

C9_Singleton ==
    \A i \in 1..Len(handles) :
        handles[i].exc = NoExc =>
            /\ instances # <<>>
            /\ handles[i].self = instances[1]
            /\ built.BaseConfigProvider = 1
            /\ instances[1][2] = <<"GlobalConfig", built.GlobalConfig>>
            /\ instances[1][3] = <<"MlflowLoggerConfig", built.MlflowLoggerConfig>>
            /\ handles[i].call = "BaseConfigProvider" => handles[i].ret = instances[1]
            /\ handles[i].call = "global_config" => handles[i].ret = instances[1][2]
            /\ handles[i].call = "mlflow_configs" => handles[i].ret = instances[1][3]
            /\ \A j \in 1..Len(handles) :
                  (handles[j].exc = NoExc /\ handles[j].call = handles[i].call)
                      => handles[j].ret = handles[i].ret

C9_Witness ==
    /\ Len(handles) >= 5
    /\ handles[1].exc # NoExc
    /\ handles[2].call = "BaseConfigProvider" /\ handles[2].exc = NoExc
    /\ handles[3].call = "global_config"
    /\ handles[4].call = "BaseConfigProvider" /\ handles[4].ret = handles[2].ret
    /\ handles[5].call = "global_config" /\ handles[5].ret = handles[3].ret

Rank == [s \in SourceNames |->
           CASE s = "init" -> 1 [] s = "env" -> 2 [] s = "dotenv" -> 3
             [] s = "secrets" -> 4 [] s = "yaml" -> 5]

\* C10: the customised sources are init, environment, dotenv, file-secrets
\* in that order, followed by the YAML source exactly when a (non-empty)
\* yaml_file is declared, the YAML source last; and each key takes its value
\* from the declared source of the lowest rank that defines it.
C10_SourceOrder ==
    /\ sources # <<>> =>
          /\ Len(sources) \in {4, 5}
          /\ SubSeq(sources, 1, 4) = <<"init", "env", "dotenv", "secrets">>
          /\ Len(sources) = 5 <=> settings[1].yaml_file = "configs/global.yaml"
          /\ Len(sources) = 5 => sources[5] = "yaml"
    /\ resolved # <<>> =>
          \A k \in Keys :
             LET declared == { s \in SourceNames : s # "yaml" \/ settings[1].yaml_file = "configs/global.yaml" }
                 defining == { s \in declared : k \in settings[1].defines[s] }
             IN /\ defining = {} => resolved[1][k][1] = "unset"
                /\ \A s \in defining :
                      (\A t \in defining : Rank[s] <= Rank[t]) => resolved[1][k] = <<s, k>>

C10_Witness ==
    /\ resolved # <<>>
    /\ Len(sources) = 5
    /\ {"init", "env", "yaml"} \subseteq { s \in SourceNames : "log_level" \in settings[1].defines[s] }
    /\ resolved[1]["log_level"] = <<"init", "log_level">>
    /\ { s \in SourceNames : "extra" \in settings[1].defines[s] } = {"yaml"}
    /\ resolved[1]["extra"] = <<"yaml", "extra">>

====
